---------------------------- MODULE Spec2Model ----------------------------
(***************************************************************************)
(* A model of the lsm-storage engine: the entry codec (format.rs), the     *)
(* MemTable and its write-ahead log (memtable.rs), the SSTable and its     *)
(* merge (sstable.rs), the writer lock (lib.rs), the Storage facade        *)
(* (storage.rs) and the background flusher (compactor.rs).                 *)
(*                                                                         *)
(* Files are sequences of bytes.  A record is encoded the way bincode      *)
(* encodes (String, Stored): a little-endian u64 length and the key bytes, *)
(* a little-endian u32 variant tag (0 = Tombstone, 1 = Value) and, for a   *)
(* Value, a u64 length and the value bytes.                                *)
(***************************************************************************)
EXTENDS Naturals, Sequences, FiniteSets, TLC

VARIABLES
    \* SpecWal: one MemTable and its WAL file (memtable.rs and its tests).
    wM,        \* the MemTable written by insert/remove: [tree, pos]
    wFile,     \* the bytes of its WAL file
    wGarbage,  \* the bytes a corruption appended to the WAL file, or <<>>
    wPre,      \* the bytes of the WAL file before the corruption
    wOps,      \* how many insert/remove calls wM has served
    wR,        \* the MemTable returned by MemTable::recover, or NoRec
    wPost,     \* the records written through the recovered MemTable
    wLog,      \* the records written through wM, in order
    wExists,   \* whether the WAL file exists
    wOut       \* the file written by MemTable::persist, or NoFile

VARIABLES
    \* SpecMerge: SSTable::merge on two tables (sstable.rs and its tests).
    gOld,      \* the records of the older input, a function from its keys
    gNew,      \* the records of the younger input
    gOut       \* the SSTable that SSTable::merge returned, or NoTable

VARIABLES
    \* SpecLock: the writer lock of a segments directory (lib.rs).
    lockFile,  \* whether <segments_path>/lock exists
    writer,    \* per process: whether it holds a WriteHandler
    lResult,   \* per process: what its last open_as_writer returned
    lEvent     \* the last step: <<what, process>>

VARIABLES
    \* Spec: the storage facade and its background flusher (storage.rs,
    \* compactor.rs, engine.rs) on a file system, with process kills.
    store,            \* "up": a Storage is built and its process alive;
                      \* "closed": the Storage was dropped, the process lives;
                      \* "down": the process was killed; "failed": build returned Err
    sstablesDir,      \* what ./sstables is to the process: "missing", a directory
                      \* "other" than segments_path, or the "segments" directory
    inodes,           \* the WAL files: the bytes of inode 1, 2, ...
    walDir,           \* the WAL directory: MemTable id -> inode of write-ahead-log-<id>
    segFiles,         \* the files written in ./sstables: [tail, bytes], tail being
                      \* the last '-'-delimited component of the file name
    engine,           \* Engine (engine.rs)
    sequence_number,  \* Storage.sequence_number
    chan,             \* wake-ups queued in the channel to the flusher
    poisoned,         \* the engine mutex is poisoned
    flusher,          \* the flusher thread: where it is, and what it holds
    hist,             \* the insert and remove calls made, with their results
    opened,           \* Len(hist) when the running Storage was built
    snap,             \* what the store answered when its process was killed
    crashes           \* number of process kills

VARIABLES
    \* SpecCompact: trigger_l0_compaction on an engine (compactor.rs).
    cEngine,   \* the four table lists of the Engine
    cPaths,    \* number of SSTable files created so far
    cBefore,   \* the tables of L0 and of L1 before the last step
    cLast,     \* the last step: "init", "flush", "read", "lock", "merge",
               \* "compact" or "panic"
    cLock,     \* trigger_l0_compaction holds the engine mutex
    cMerged    \* <<the result of its reduce>> once computed, else <<>>

walVars == <<wM, wFile, wGarbage, wPre, wOps, wR, wPost, wLog, wExists, wOut>>
mergeVars == <<gOld, gNew, gOut>>
lockVars == <<lockFile, writer, lResult, lEvent>>
compactVars == <<cEngine, cPaths, cBefore, cLast, cLock, cMerged>>
fsVars == <<sstablesDir, inodes, walDir, segFiles>>
procVars == <<store, engine, sequence_number, chan, poisoned, flusher>>
procVarsButFlusher == <<store, engine, sequence_number, chan, poisoned>>
ghostVars == <<hist, opened, snap, crashes>>
storeVars == <<fsVars, procVars, ghostVars>>
vars == <<walVars, mergeVars, lockVars, storeVars, compactVars>>
nonWalVars == <<mergeVars, lockVars, storeVars, compactVars>>
nonMergeVars == <<walVars, lockVars, storeVars, compactVars>>
nonLockVars == <<walVars, mergeVars, storeVars, compactVars>>
nonStoreVars == <<walVars, mergeVars, lockVars, compactVars>>
nonCompactVars == <<walVars, mergeVars, lockVars, storeVars>>

(***************************************************************************)
(* Bounds of the model.                                                    *)
(***************************************************************************)
\* Number of insert/remove calls made on the MemTable of SpecWal before recovery.
MaxWalOps == 2
\* Number of insert/remove calls made on the recovered MemTable of SpecWal.
MaxPostOps == 1
\* Number of processes that open the same segments directory in SpecLock.
NumProcs == 3
\* Number of Storage::insert / Storage::remove calls made in Spec.
MaxOps == 4
\* Number of process kills in Spec.
MaxCrashes == 1
\* Config.threshold of the Storage of Spec (storage.rs sets 1024 by default).
Threshold == 2
\* Number of SSTable files after which SpecCompact flushes no further one.
MaxFiles == 4
\* The number of L0 SSTables past which a compaction is due (the source
\* has no such value; the smallest that the runs of Spec exceed).
CompactionThreshold == 1

(***************************************************************************)
(* Widths of the encoding (bincode's fixed-width integers).                *)
(***************************************************************************)
LenWidth == 8
TagWidth == 4

\* Keys (UTF-8 strings, as byte sequences) and values (byte sequences).
Keys == {<<1>>, <<1, 2>>, <<2>>}
Vals == {<<5>>, <<6, 7>>}

Tombstone == [tomb |-> TRUE, val |-> <<>>]
Value(v) == [tomb |-> FALSE, val |-> v]
Stored == {Tombstone} \cup {Value(v) : v \in Vals}

\* Option<T>
None == [some |-> FALSE]
Some(x) == [some |-> TRUE, v |-> x]

(***************************************************************************)
(* Byte-level helpers.                                                     *)
(***************************************************************************)
\* n as w little-endian bytes.
RECURSIVE LE(_, _)
LE(n, w) == IF w = 0 THEN <<>> ELSE <<n % 256>> \o LE(n \div 256, w - 1)

\* The number that little-endian bytes hold.  A number of 2^24 or more is
\* read as Huge: as a length it is beyond the end of every file of the model.
Huge == 16777216
FromLE(bs) ==
    IF \E i \in 4..Len(bs) : bs[i] # 0 THEN Huge
    ELSE bs[1] + 256 * bs[2] + 65536 * bs[3]

Min(a, b) == IF a < b THEN a ELSE b
Max(a, b) == IF a < b THEN b ELSE a

\* The bytes of file at offsets [pos, pos + n) (offsets count from 0).
Slice(file, pos, n) == SubSeq(file, pos + 1, pos + n)

Zeros(n) == [i \in 1..n |-> 0]

\* write(2) of bytes at offset pos of a file opened without O_APPEND: the
\* bytes replace what is there, and a cursor beyond the end leaves a hole
\* that reads as zeros.
WriteAt(file, pos, bytes) ==
    LET head == IF pos <= Len(file) THEN SubSeq(file, 1, pos)
                ELSE file \o Zeros(pos - Len(file))
        rest == SubSeq(file, pos + Len(bytes) + 1, Len(file))
    IN head \o bytes \o rest

\* String::cmp: lexicographic order on the bytes.
RECURSIVE StrLess(_, _)
StrLess(a, b) ==
    IF b = <<>> THEN FALSE
    ELSE IF a = <<>> THEN TRUE
    ELSE IF a[1] # b[1] THEN a[1] < b[1]
    ELSE StrLess(Tail(a), Tail(b))

\* A byte that no UTF-8 string holds.
BadUtf8 == 255
IsUtf8(bs) == \A i \in 1..Len(bs) : bs[i] # BadUtf8

(***************************************************************************)
(* format.rs                                                               *)
(***************************************************************************)
\* bincode::serialize_into(writer, &(key, value)): the bytes of one record.
write_entry(key, value) ==
    LE(Len(key), LenWidth) \o key \o
    (IF value.tomb THEN LE(0, TagWidth)
     ELSE LE(1, TagWidth) \o LE(Len(value.val), LenWidth) \o value.val)

\* bincode::serialized_size(&entry)
entry_size(key, value) ==
    LenWidth + Len(key) + TagWidth +
    (IF value.tomb THEN 0 ELSE LenWidth + Len(value.val))

\* read_exact of n bytes at pos: the bytes, or an UnexpectedEof that leaves
\* the cursor at the end of the file (a cursor already beyond the end stays).
ReadExact(file, pos, n) ==
    IF pos + n <= Len(file)
    THEN [ok |-> TRUE, bytes |-> Slice(file, pos, n), pos |-> pos + n]
    ELSE [ok |-> FALSE, bytes |-> <<>>, pos |-> Max(pos, Len(file))]

\* bincode::deserialize_from::<_, (String, Stored)>(reader) with the cursor at
\* pos, one operator per field read.  kind is "entry", "eof" (an
\* io::ErrorKind::UnexpectedEof, wherever in the record it happens) or "err"
\* (any other decoding error); pos is where the cursor is left.
DesFail(kind, pos) == [kind |-> kind, key |-> <<>>, value |-> Tombstone, pos |-> pos]

DesVal(key, val) ==
    IF ~val.ok THEN DesFail("eof", val.pos)
    ELSE [kind |-> "entry", key |-> key, value |-> Value(val.bytes), pos |-> val.pos]

DesValLen(file, key, vlen) ==
    IF ~vlen.ok THEN DesFail("eof", vlen.pos)
    ELSE DesVal(key, ReadExact(file, vlen.pos, FromLE(vlen.bytes)))

DesTag(file, key, tag) ==
    IF ~tag.ok THEN DesFail("eof", tag.pos)
    ELSE IF FromLE(tag.bytes) = 0
    THEN [kind |-> "entry", key |-> key, value |-> Tombstone, pos |-> tag.pos]
    ELSE IF FromLE(tag.bytes) = 1
    THEN DesValLen(file, key, ReadExact(file, tag.pos, LenWidth))
    ELSE DesFail("err", tag.pos)

DesKey(file, key) ==
    IF ~key.ok THEN DesFail("eof", key.pos)
    ELSE IF ~IsUtf8(key.bytes) THEN DesFail("err", key.pos)
    ELSE DesTag(file, key.bytes, ReadExact(file, key.pos, TagWidth))

DesKeyLen(file, klen) ==
    IF ~klen.ok THEN DesFail("eof", klen.pos)
    ELSE DesKey(file, ReadExact(file, klen.pos, FromLE(klen.bytes)))

Deserialize(file, pos) == DesKeyLen(file, ReadExact(file, pos, LenWidth))

\* reached_eof: every UnexpectedEof is reported as the end of the stream.
reached_eof(r) == r.kind = "eof"

\* The match of read_entry: Ok(Some(entry)) is kind "entry", Ok(None) is
\* kind "none", Err is kind "err".
ReadResult(r) == IF reached_eof(r) THEN [r EXCEPT !.kind = "none"] ELSE r

read_entry(file, pos) == ReadResult(Deserialize(file, pos))

(***************************************************************************)
(* memtable.rs                                                             *)
(*                                                                         *)
(* A MemTable is its tree (BTreeMap<String, Stored>, a function from the   *)
(* keys it holds) and the cursor of its WAL file handle; the WAL file      *)
(* itself is on disk.                                                      *)
(***************************************************************************)
EmptyTree == [k \in {} |-> Tombstone]

\* BTreeMap::insert
TreeInsert(tree, key, value) ==
    [k \in DOMAIN tree \cup {key} |-> IF k = key THEN value ELSE tree[k]]

\* MemTable::new on a WAL file that does not exist yet.
MemTableNew == [tree |-> EmptyTree, pos |-> 0]

\* MemTable::insert / MemTable::remove, the in-memory part: the tree after
\* the call (the cursor advances by the bytes written).
memInsert(m, key, val) ==
    [m EXCEPT !.tree = TreeInsert(m.tree, key, Value(val)),
              !.pos = m.pos + Len(write_entry(key, Value(val)))]

\* A remove that deletes the key from the tree instead of storing a Tombstone.
memRemoveForgets(m, key) ==
    [m EXCEPT !.tree = [k \in DOMAIN m.tree \ {key} |-> m.tree[k]],
              !.pos = m.pos + Len(write_entry(key, Tombstone))]

memRemove(m, key) ==
    [m EXCEPT !.tree = TreeInsert(m.tree, key, Tombstone),
              !.pos = m.pos + Len(write_entry(key, Tombstone))]

\* The WAL file after MemTable::insert / MemTable::remove wrote the record
\* through the MemTable's file handle.
walAppend(file, m, key, value) == WriteAt(file, m.pos, write_entry(key, value))

\* MemTable::len
len(tree) == Cardinality(DOMAIN tree)

\* MemTable::get: a Tombstone and an absent key both give None.
get(tree, key) ==
    IF key \in DOMAIN tree /\ ~tree[key].tomb THEN Some(tree[key].val) ELSE None

\* File::set_len
set_len(file, n) ==
    IF n <= Len(file) THEN SubSeq(file, 1, n) ELSE file \o Zeros(n - Len(file))

\* The loop of MemTable::recover: entries are read while read_entry yields
\* one; the cursor is left where the last read_entry stopped.
RECURSIVE RecoverLoop(_, _, _, _)
RecoverStep(file, r, tree, bytes_read) ==
    IF r.kind = "entry"
    THEN RecoverLoop(file, r.pos, TreeInsert(tree, r.key, r.value),
                     bytes_read + entry_size(r.key, r.value))
    ELSE [tree |-> tree, pos |-> r.pos, bytes_read |-> bytes_read]

RecoverLoop(file, pos, tree, bytes_read) ==
    RecoverStep(file, read_entry(file, pos), tree, bytes_read)

\* MemTable::recover: the tree, the cursor of the WAL handle and the WAL
\* file after wal.set_len(bytes_read).
Recovered(file, l) ==
    [tree |-> l.tree, pos |-> l.pos, file |-> set_len(file, l.bytes_read)]

recover(file) == Recovered(file, RecoverLoop(file, 0, EmptyTree, 0))

(***************************************************************************)
(* sstable.rs                                                              *)
(*                                                                         *)
(* An SSTable is its file (written once, then only read) and its indexes   *)
(* (HashMap<String, u64>, a function from the keys it holds to offsets).   *)
(***************************************************************************)
\* The loop of SSTable::build_index_table: it ends at the first read_entry
\* that is not Ok(Some(entry)); a key seen twice keeps its last offset.
RECURSIVE IndexLoop(_, _, _)
IndexStep(file, r, bytes_read, indexes) ==
    IF r.kind = "entry"
    THEN IndexLoop(file, bytes_read + entry_size(r.key, r.value),
                   [k \in DOMAIN indexes \cup {r.key} |->
                       IF k = r.key THEN bytes_read ELSE indexes[k]])
    ELSE indexes

IndexLoop(file, bytes_read, indexes) ==
    IndexStep(file, read_entry(file, bytes_read), bytes_read, indexes)

build_index_table(file) == IndexLoop(file, 0, [k \in {} |-> 0])

\* SSTable::new
SSTableNew(file) == [fd |-> file, indexes |-> build_index_table(file)]

\* The Result of SSTable::new on an existing file: File::open succeeds and
\* build_index_table returns Ok(indexes) however its loop ended.
SSTableOpen(file) == [ok |-> TRUE, table |-> SSTableNew(file)]

\* SSTable::get: "ok" with Some(v) or None, "err" when read_entry fails, and
\* "panic" when read_entry finds no record at the offset (unwrap on None).
GetResult(r) ==
    IF r.kind = "err" THEN [kind |-> "err", v |-> None]
    ELSE IF r.kind = "none" THEN [kind |-> "panic", v |-> None]
    ELSE IF r.value.tomb THEN [kind |-> "ok", v |-> None]
    ELSE [kind |-> "ok", v |-> Some(r.value.val)]

sstGet(table, key) ==
    IF key \notin DOMAIN table.indexes THEN [kind |-> "ok", v |-> None]
    ELSE GetResult(read_entry(table.fd, table.indexes[key]))

\* The match of SSTable::merge on the order of the two keys: which record
\* is written, "old" or "new" (on Equal both inputs advance).
mergeEmitOldOnEqual(old_key, new_key) ==
    IF old_key = new_key THEN "old"
    ELSE IF StrLess(old_key, new_key) THEN "old" ELSE "new"

mergeEmit(old_key, new_key) ==
    IF old_key = new_key THEN "new"
    ELSE IF StrLess(old_key, new_key) THEN "old" ELSE "new"

\* One pass of the loops of SSTable::merge.  While both inputs have a record
\* the match decides; when one has ended the other is drained.  take is the
\* input whose record is written, adv_old / adv_new the inputs read again.
MergeTake(old_entry, new_entry) ==
    IF old_entry.kind = "entry" /\ new_entry.kind = "entry"
    THEN mergeEmit(old_entry.key, new_entry.key)
    ELSE IF old_entry.kind = "entry" THEN "old" ELSE "new"

\* A merge that on equal keys reads on in new_sstable only.
MergeAdvOldOnlyTaken(old_entry, new_entry, take) == take = "old"

MergeAdvOld(old_entry, new_entry, take) ==
    take = "old" \/ (new_entry.kind = "entry" /\ old_entry.key = new_entry.key)

MergeAdvNew(old_entry, new_entry, take) ==
    take = "new" \/ (old_entry.kind = "entry" /\ old_entry.key = new_entry.key)

MergeAdvance(fd, entry, adv) == IF adv THEN read_entry(fd, entry.pos) ELSE entry

MergeWrite(out, e) == out \o write_entry(e.key, e.value)

\* The loops of SSTable::merge.  old_entry and new_entry are the results of
\* read_entry on the two inputs, out the bytes written so far.  A read_entry
\* error ends the merge ("?") with ok = FALSE.
RECURSIVE MergeLoop(_, _, _, _, _)
MergePass(old_fd, new_fd, old_entry, new_entry, out, take) ==
    MergeLoop(old_fd, new_fd,
              MergeAdvance(old_fd, old_entry, MergeAdvOld(old_entry, new_entry, take)),
              MergeAdvance(new_fd, new_entry, MergeAdvNew(old_entry, new_entry, take)),
              MergeWrite(out, IF take = "old" THEN old_entry ELSE new_entry))

MergeLoop(old_fd, new_fd, old_entry, new_entry, out) ==
    IF old_entry.kind = "err" \/ new_entry.kind = "err"
    THEN [ok |-> FALSE, out |-> out]
    ELSE IF old_entry.kind = "none" /\ new_entry.kind = "none"
    THEN [ok |-> TRUE, out |-> out]
    ELSE MergePass(old_fd, new_fd, old_entry, new_entry, out,
                   MergeTake(old_entry, new_entry))

\* SSTable::merge(path, old_sstable, new_sstable): both files are rewound,
\* the merged records are written to a new file, and that file is opened.
Merged(m) == [ok |-> m.ok, file |-> m.out, table |-> SSTableNew(m.out)]

MergeStart(old_fd, new_fd) ==
    MergeLoop(old_fd, new_fd, read_entry(old_fd, 0), read_entry(new_fd, 0), <<>>)

merge(old_sstable, new_sstable) == Merged(MergeStart(old_sstable.fd, new_sstable.fd))

\* The keys of a set in ascending order (the order of BTreeMap's iterator).
RECURSIVE SortedKeys(_)
SortedKeys(S) ==
    IF S = {} THEN <<>>
    ELSE LET least == CHOOSE k \in S : \A j \in S \ {k} : StrLess(k, j)
         IN <<least>> \o SortedKeys(S \ {least})

\* The records of a tree written in order by write_entry: the loop of
\* MemTable::persist, and what test_utils::generate_sstable writes.
RECURSIVE WriteAll(_, _)
WriteAll(tree, keys) ==
    IF keys = <<>> THEN <<>>
    ELSE write_entry(keys[1], tree[keys[1]]) \o WriteAll(tree, Tail(keys))

\* A persist that leaves out the keys that ended as a Tombstone.
persistBytesNoTombstones(tree) ==
    WriteAll(tree, SortedKeys({k \in DOMAIN tree : ~tree[k].tomb}))

\* MemTable::persist: the bytes of the file it writes.
persistBytes(tree) == WriteAll(tree, SortedKeys(DOMAIN tree))

(***************************************************************************)
(* SpecWal: a MemTable is written, its WAL file is possibly corrupted by   *)
(* appended bytes (test_utils.rs, corrupt_wal), MemTable::recover is run   *)
(* on the file and the recovered MemTable is written again.                *)
(***************************************************************************)
NoRec == [tree |-> EmptyTree, pos |-> 0, none |-> TRUE]

\* What test_utils::corrupt_wal appends: bincode's encoding of the str "5".
TestGarbage == LE(1, LenWidth) \o <<53>>

\* Torn records: the non-empty proper prefixes of two encoded records.
TornSources == {write_entry(<<1>>, Value(<<6, 7>>)), write_entry(<<1, 2>>, Tombstone)}
TornRecords == UNION {{SubSeq(e, 1, n) : n \in 1..(Len(e) - 1)} : e \in TornSources}

\* Records that do not decode: a variant tag that is neither 0 nor 1, and a
\* key that is not UTF-8.
BadTag == LE(1, LenWidth) \o <<1>> \o LE(2, TagWidth)
BadKey == LE(1, LenWidth) \o <<BadUtf8>> \o LE(0, TagWidth)

Garbage == TornRecords \cup {TestGarbage, BadTag, BadKey}

NoFile == [bytes |-> <<>>, none |-> TRUE]

NoTable == [fd |-> <<>>, indexes |-> [k \in {} |-> 0], none |-> TRUE]

MergeIdle ==
    /\ gOld = EmptyTree
    /\ gNew = EmptyTree
    /\ gOut = NoTable

Procs == 1..NumProcs

LockIdle ==
    /\ lockFile = FALSE
    /\ writer = [p \in Procs |-> FALSE]
    /\ lResult = [p \in Procs |-> "none"]
    /\ lEvent = <<"init", 0>>

\* Engine of a Storage built over empty directories: MemTable 0 is active,
\* its WAL write-ahead-log-0 is inode 1.
NoMemTable == [id |-> 0, tree |-> EmptyTree, ino |-> 0, pos |-> 0]
EmptyEngine ==
    [active_memtable |-> NoMemTable, memtables |-> <<>>,
     sstables0 |-> <<>>, sstables1 |-> <<>>,
     sstable_readers0 |-> <<>>, sstable_readers1 |-> <<>>]
FlusherAt(pc) == [pc |-> pc, mem |-> NoMemTable, file |-> <<>>]
NoSnap == [reads |-> <<>>, l0 |-> 0, quiet |-> FALSE]

StoreBuilt ==
    /\ store = "up"
    /\ inodes = << <<>> >>
    /\ walDir = (0 :> 1)
    /\ segFiles = {}
    /\ engine = [EmptyEngine EXCEPT !.active_memtable.ino = 1]
    /\ sequence_number = 0
    /\ chan = 0
    /\ poisoned = FALSE
    /\ flusher = FlusherAt("recv")
    /\ hist = <<>>
    /\ opened = 0
    /\ snap = NoSnap
    /\ crashes = 0

StoreIdle == StoreBuilt /\ sstablesDir = "missing"

\* The table lists of an engine without SSTables.
NoTables ==
    [sstables0 |-> <<>>, sstables1 |-> <<>>,
     sstable_readers0 |-> <<>>, sstable_readers1 |-> <<>>]

CompactIdle ==
    /\ cEngine = NoTables
    /\ cPaths = 0
    /\ cBefore = <<>>
    /\ cLast = "init"
    /\ cLock = FALSE
    /\ cMerged = <<>>

WalIdle ==
    /\ wM = MemTableNew
    /\ wFile = <<>>
    /\ wGarbage = <<>>
    /\ wPre = <<>>
    /\ wOps = 0
    /\ wR = NoRec
    /\ wPost = <<>>
    /\ wLog = <<>>
    /\ wExists = TRUE
    /\ wOut = NoFile

\* MemTable::insert on the MemTable that owns the WAL.
WalInsert(key, val) ==
    /\ wExists /\ wR = NoRec /\ wGarbage = <<>> /\ wOps < MaxWalOps
    /\ wFile' = walAppend(wFile, wM, key, Value(val))
    /\ wM' = memInsert(wM, key, val)
    /\ wOps' = wOps + 1
    /\ wLog' = Append(wLog, <<key, Value(val)>>)
    /\ UNCHANGED <<wGarbage, wPre, wR, wPost, wExists, wOut>>
    /\ UNCHANGED nonWalVars

\* MemTable::remove on the MemTable that owns the WAL.
WalRemove(key) ==
    /\ wExists /\ wR = NoRec /\ wGarbage = <<>> /\ wOps < MaxWalOps
    /\ wFile' = walAppend(wFile, wM, key, Tombstone)
    /\ wM' = memRemove(wM, key)
    /\ wOps' = wOps + 1
    /\ wLog' = Append(wLog, <<key, Tombstone>>)
    /\ UNCHANGED <<wGarbage, wPre, wR, wPost, wExists, wOut>>
    /\ UNCHANGED nonWalVars

\* test_utils::corrupt_wal, with any of the garbage: the bytes are appended
\* to the WAL file (OpenOptions::append).
WalCorrupt(g) ==
    /\ wExists /\ wR = NoRec /\ wGarbage = <<>>
    /\ wGarbage' = g
    /\ wPre' = wFile
    /\ wFile' = wFile \o g
    /\ UNCHANGED <<wM, wOps, wR, wPost, wLog, wExists, wOut>>
    /\ UNCHANGED nonWalVars

\* MemTable::recover(wal_path): the tests run it while the first MemTable is
\* still alive; the WAL file is truncated by set_len.
WalRecover ==
    /\ wExists /\ wR = NoRec
    /\ \E r \in {recover(wFile)} :
          /\ wR' = [tree |-> r.tree, pos |-> r.pos, none |-> FALSE]
          /\ wFile' = r.file
    /\ wPre' = IF wGarbage = <<>> THEN wFile ELSE wPre
    /\ UNCHANGED <<wM, wGarbage, wOps, wPost, wLog, wExists, wOut>>
    /\ UNCHANGED nonWalVars

\* MemTable::insert / MemTable::remove on the recovered MemTable.
WalPostInsert(key, val) ==
    /\ wExists /\ wR # NoRec /\ Len(wPost) < MaxPostOps
    /\ wFile' = walAppend(wFile, wR, key, Value(val))
    /\ wR' = memInsert(wR, key, val)
    /\ wPost' = Append(wPost, <<key, Value(val)>>)
    /\ UNCHANGED <<wM, wGarbage, wPre, wOps, wLog, wExists, wOut>>
    /\ UNCHANGED nonWalVars

WalPostRemove(key) ==
    /\ wExists /\ wR # NoRec /\ Len(wPost) < MaxPostOps
    /\ wFile' = walAppend(wFile, wR, key, Tombstone)
    /\ wR' = memRemove(wR, key)
    /\ wPost' = Append(wPost, <<key, Tombstone>>)
    /\ UNCHANGED <<wM, wGarbage, wPre, wOps, wLog, wExists, wOut>>
    /\ UNCHANGED nonWalVars

\* MemTable::persist(self, path) on the MemTable that was written last: the
\* records of its tree are written to a new file and the WAL is removed.
WalPersist ==
    /\ wExists
    /\ \E m \in {IF wR = NoRec THEN wM ELSE wR} :
          wOut' = [bytes |-> persistBytes(m.tree), none |-> FALSE]
    /\ wExists' = FALSE
    /\ UNCHANGED <<wM, wFile, wGarbage, wPre, wOps, wR, wPost, wLog>>
    /\ UNCHANGED nonWalVars

WalNext ==
    \/ \E key \in Keys, val \in Vals : WalInsert(key, val)
    \/ \E key \in Keys : WalRemove(key)
    \/ \E g \in Garbage : WalCorrupt(g)
    \/ WalRecover
    \/ \E key \in Keys, val \in Vals : WalPostInsert(key, val)
    \/ \E key \in Keys : WalPostRemove(key)
    \/ WalPersist

InitWal == WalIdle /\ MergeIdle /\ LockIdle /\ StoreIdle /\ CompactIdle
SpecWal == InitWal /\ [][WalNext]_vars

\* The records of a log applied to a tree, and their bytes.
RECURSIVE ApplyLog(_, _)
ApplyLog(tree, log) ==
    IF log = <<>> THEN tree
    ELSE ApplyLog(TreeInsert(tree, log[1][1], log[1][2]), Tail(log))

RECURSIVE EncodeLog(_)
EncodeLog(log) ==
    IF log = <<>> THEN <<>>
    ELSE write_entry(log[1][1], log[1][2]) \o EncodeLog(Tail(log))

\* C8 (recovery equality): MemTable::recover on the WAL of a MemTable that
\* was produced by insert and remove calls yields a tree equal to that
\* MemTable's tree, tombstones included; the same holds again for the
\* recovered MemTable after it has served further calls.
RecoverYieldsSameMemtable ==
    wGarbage = <<>> =>
        /\ wR = NoRec => recover(wFile).tree = wM.tree
        /\ wR # NoRec => /\ wR.tree = ApplyLog(wM.tree, wPost)
                         /\ recover(wFile).tree = wR.tree

\* A MemTable with an overwritten key and a removed key was recovered.
RecoverWitness ==
    /\ wR # NoRec /\ wGarbage = <<>> /\ wPost = <<>>
    /\ wOps = 2
    /\ \E k \in DOMAIN wM.tree : wM.tree[k].tomb
    /\ wR.tree = wM.tree

\* C9 (corruption truncation), as claimed: after garbage was appended to the
\* WAL, recover yields the pre-corruption tree, the WAL file has its
\* pre-corruption length, and the records written after the recovery follow
\* the last intact record.
CorruptionTruncation ==
    (wR # NoRec /\ wGarbage # <<>>) =>
        /\ wR.tree = ApplyLog(wM.tree, wPost)
        /\ wFile = wPre \o EncodeLog(wPost)


\* The records that read_entry yields from offset pos of a file until it
\* yields none, and whether the file ended exactly where a record ended.
RECURSIVE ScanLoop(_, _, _)
ScanStep(file, pos, r, entries) ==
    IF r.kind = "entry"
    THEN ScanLoop(file, r.pos, Append(entries, [key |-> r.key, value |-> r.value]))
    ELSE [entries |-> entries, clean |-> r.kind = "none" /\ pos = Len(file)]

ScanLoop(file, pos, entries) == ScanStep(file, pos, read_entry(file, pos), entries)

Scan(file) == ScanLoop(file, 0, <<>>)

\* The file holds one record per key of the tree, each with the tree's
\* value for its key, in strictly ascending key order, and nothing else.
HoldsTree(scan, tree) ==
    /\ scan.clean
    /\ Len(scan.entries) = Cardinality(DOMAIN tree)
    /\ \A i \in 1..Len(scan.entries) :
          /\ scan.entries[i].key \in DOMAIN tree
          /\ scan.entries[i].value = tree[scan.entries[i].key]
    /\ \A i \in 1..(Len(scan.entries) - 1) :
          StrLess(scan.entries[i].key, scan.entries[i + 1].key)

\* C11 (flush contents): MemTable::persist writes one record per distinct
\* key, in strictly ascending key order, each with the latest state the
\* insert and remove calls recorded for the key (a Tombstone for a key
\* whose last call was remove), and afterwards the WAL file is gone.
FlushContents ==
    ~wOut.none =>
        /\ HoldsTree(Scan(wOut.bytes), ApplyLog(EmptyTree, wLog \o wPost))
        /\ ~wExists

\* A MemTable whose keys were written in descending order, one of them
\* ending as a Tombstone, was persisted.
FlushWitness ==
    /\ ~wOut.none
    /\ Len(wLog) = 2
    /\ StrLess(wLog[2][1], wLog[1][1])
    /\ \E i \in 1..2 : wLog[i][2].tomb
    /\ Len(Scan(wOut.bytes).entries) = 2

\* Where the intact records of the WAL file end.
IntactEnd == IF wGarbage = <<>> THEN Len(wFile) ELSE Len(wPre)

\* C13 (codec end-of-stream): read_entry returns the end-of-stream result
\* Ok(None) iff the stream is exactly at the end of the file, and an error
\* (never end-of-stream, never a record) when the stream ends within a
\* record.
CodecEndOfStream ==
    (wR = NoRec /\ wExists) =>
        /\ read_entry(wFile, IntactEnd).kind = "none" <=> IntactEnd = Len(wFile)
        /\ wGarbage \in TornRecords => read_entry(wFile, IntactEnd).kind = "err"

\* The sum of the encoded sizes of the first n of the entries.
RECURSIVE SizeOfFirst(_, _)
SizeOfFirst(entries, n) ==
    IF n = 0 THEN 0
    ELSE SizeOfFirst(entries, n - 1) + entry_size(entries[n].key, entries[n].value)

\* The index maps every key of the entries to the offset of its record.
IndexesRecords(indexes, entries) ==
    /\ DOMAIN indexes = {entries[i].key : i \in 1..Len(entries)}
    /\ \A i \in 1..Len(entries) : indexes[entries[i].key] = SizeOfFirst(entries, i - 1)

\* C14 (SSTable open on a damaged file): SSTable::new fails on a file of
\* intact records followed by a truncated or undecodable record; on a file
\* of intact records (here one written by MemTable::persist) it succeeds
\* and the index maps every key to the offset at which its record starts.
SSTableOpenDamaged ==
    /\ (wR = NoRec /\ wExists /\ wGarbage # <<>>) => ~SSTableOpen(wFile).ok
    /\ ~wOut.none =>
          /\ SSTableOpen(wOut.bytes).ok
          /\ IndexesRecords(SSTableOpen(wOut.bytes).table.indexes,
                            Scan(wOut.bytes).entries)

(***************************************************************************)
(* SpecMerge: SSTable::merge on every pair of tables over Keys, each       *)
(* written in ascending key order (test_utils::generate_sstable).          *)
(***************************************************************************)
Trees == UNION {[S -> Stored] : S \in SUBSET Keys}

InitMerge ==
    /\ WalIdle
    /\ LockIdle
    /\ StoreIdle
    /\ CompactIdle
    /\ gOld \in Trees
    /\ gNew \in Trees
    /\ gOut = NoTable

MergeTables ==
    /\ gOut = NoTable
    /\ \E m \in {merge(SSTableNew(persistBytes(gOld)), SSTableNew(persistBytes(gNew)))} :
          gOut' = [fd |-> m.table.fd, indexes |-> m.table.indexes, none |-> ~m.ok]
    /\ UNCHANGED <<gOld, gNew>>
    /\ UNCHANGED nonMergeVars

MergeNext == MergeTables

SpecMerge == InitMerge /\ [][MergeNext]_vars

\* The record that a table holds for a key of its indexes.
EntryAt(table, key) == read_entry(table.fd, table.indexes[key])

\* C10 (merge semantics): the table returned by SSTable::merge has a record
\* for k iff old or new has one, and it is new's record when k is in new and
\* old's record otherwise.
MergeNewerWins ==
    gOut # NoTable =>
        /\ ~gOut.none
        /\ DOMAIN gOut.indexes = DOMAIN gOld \cup DOMAIN gNew
        /\ \A k \in DOMAIN gOut.indexes :
              /\ EntryAt(gOut, k).kind = "entry"
              /\ EntryAt(gOut, k).key = k
              /\ EntryAt(gOut, k).value = IF k \in DOMAIN gNew THEN gNew[k] ELSE gOld[k]

\* A merge where new holds a Tombstone for a key old holds a Value for, and
\* a Value for a key old holds a Tombstone for.
MergeWitness ==
    /\ gOut # NoTable
    /\ \E k \in DOMAIN gOld \cap DOMAIN gNew : gNew[k].tomb /\ ~gOld[k].tomb
    /\ \E k \in DOMAIN gOld \cap DOMAIN gNew : ~gNew[k].tomb /\ gOld[k].tomb
    /\ \E k \in DOMAIN gOld : k \notin DOMAIN gNew


\* What newer-wins selects from the two inputs.
MergedTree ==
    [k \in DOMAIN gOld \cup DOMAIN gNew |-> IF k \in DOMAIN gNew THEN gNew[k] ELSE gOld[k]]

\* C24 (merge output shape): the file written by SSTable::merge, read from
\* its start, is a sequence of whole records in strictly ascending key
\* order, one per key of the union of the two inputs' key sets and no
\* other, each being the record newer-wins selects, a selected Tombstone
\* included; the records of the input that is left when the other ends are
\* all there.
MergeOutputShape ==
    gOut # NoTable =>
        /\ ~gOut.none
        /\ HoldsTree(Scan(gOut.fd), MergedTree)

\* A merge that selected a Tombstone of each input and in which new ended
\* while old had two records left.
MergeShapeWitness ==
    /\ gOut # NoTable
    /\ \E k \in DOMAIN gNew : gNew[k].tomb
    /\ \E k \in DOMAIN gOld \ DOMAIN gNew : gOld[k].tomb
    /\ DOMAIN gNew = {<<1>>}
    /\ DOMAIN gOld = Keys
    /\ Len(Scan(gOut.fd).entries) = 3

(***************************************************************************)
(* SpecLock: processes open the same segments directory as writers         *)
(* (lib.rs, Storage::open_as_writer and Drop for WriteHandler); a process  *)
(* may be killed while it holds its WriteHandler.                          *)
(***************************************************************************)
\* OpenOptions::new().create_new(true).write(true).open(lock): the open
\* succeeds iff the file does not exist.
CreateAlways(exists) == TRUE

CreateNew(exists) == ~exists

\* Storage::open_as_writer by process p, which holds no WriteHandler (the
\* WriteHandler borrows the Storage mutably).
OpenAsWriter(p) ==
    /\ ~writer[p]
    /\ IF CreateNew(lockFile)
       THEN /\ lockFile' = TRUE
            /\ writer' = [writer EXCEPT ![p] = TRUE]
            /\ lResult' = [lResult EXCEPT ![p] = "ok"]
            /\ lEvent' = <<"open", p>>
       ELSE /\ lResult' = [lResult EXCEPT ![p] = "err"]
            /\ lEvent' = <<"refused", p>>
            /\ UNCHANGED <<lockFile, writer>>
    /\ UNCHANGED nonLockVars

\* Drop for WriteHandler: std::fs::remove_file(lock).
DropWriter(p) ==
    /\ writer[p]
    /\ lockFile' = FALSE
    /\ writer' = [writer EXCEPT ![p] = FALSE]
    /\ lEvent' = <<"drop", p>>
    /\ UNCHANGED lResult
    /\ UNCHANGED nonLockVars

\* Process p is killed: its WriteHandler is gone and no destructor runs.
KillProc(p) ==
    /\ writer[p]
    /\ writer' = [writer EXCEPT ![p] = FALSE]
    /\ lResult' = [lResult EXCEPT ![p] = "none"]
    /\ lEvent' = <<"kill", p>>
    /\ UNCHANGED lockFile
    /\ UNCHANGED nonLockVars

LockNext ==
    \/ \E p \in Procs : OpenAsWriter(p)
    \/ \E p \in Procs : DropWriter(p)
    \/ \E p \in Procs : KillProc(p)

InitLock == WalIdle /\ MergeIdle /\ LockIdle /\ StoreIdle /\ CompactIdle
SpecLock == InitLock /\ [][LockNext]_vars

Writers == {p \in Procs : writer[p]}

\* C7 (write exclusivity), as claimed: at most one WriteHandler exists and
\* the lock file exists iff a WriteHandler is alive.
LockIffWriterAlive ==
    /\ Cardinality(Writers) <= 1
    /\ lockFile <=> Writers # {}

\* C7, amended: at most one WriteHandler exists; while one is alive the lock
\* file exists; open_as_writer succeeds only if the lock file does not exist
\* and creates it; it fails, leaving the file in place, iff the file exists;
\* dropping the WriteHandler removes the file; and the file exists without a
\* WriteHandler only after a process was killed while holding one.
LockExcludesWriters ==
    /\ [](Cardinality(Writers) <= 1)
    /\ [](Writers # {} => lockFile)
    /\ [][/\ lEvent'[1] = "open" => ~lockFile /\ lockFile' /\ writer'[lEvent'[2]]
          /\ lEvent'[1] = "refused" => lockFile /\ lockFile' /\ writer' = writer
          /\ lEvent'[1] = "drop" => lockFile /\ ~lockFile' /\ ~writer'[lEvent'[2]]
          /\ (lockFile' /\ Writers' = {}) =>
                (lEvent'[1] = "kill" \/ (lockFile /\ Writers = {}))]_vars

\* A second open_as_writer was refused while a WriteHandler is alive, after
\* an earlier WriteHandler had been dropped.
LockWitness ==
    /\ \E p \in Procs : writer[p] /\ lResult[p] = "ok"
    /\ \E q \in Procs : ~writer[q] /\ lResult[q] = "ok"
    /\ lEvent[1] = "refused"
    /\ lockFile

(***************************************************************************)
(* Spec: storage.rs (Storage, StorageBuilder), compactor.rs (the flusher   *)
(* thread) and engine.rs, over the WAL directory and ./sstables.           *)
(***************************************************************************)
StoreKeys == {<<1>>, <<2>>}
StoreVals == {<<5>>, <<6, 7>>}

\* Storage::read, the frozen MemTables: memtables.iter().rev().find_map(get),
\* from index i down.  MemTable::get gives None for a Tombstone, so find_map
\* goes on to the next older MemTable.
RECURSIVE FindMem(_, _, _)
FindMemStep(memtables, i, key, v) ==
    IF v.some THEN v ELSE FindMem(memtables, i - 1, key)

FindMem(memtables, i, key) ==
    IF i = 0 THEN None
    ELSE FindMemStep(memtables, i, key, get(memtables[i].tree, key))

\* Storage::read, the loop over sstable_readers0.iter_mut().rev():
\* table.get(key).unwrap() panics on Err, Some(v) is returned, None goes on.
RECURSIVE FindSst(_, _, _)
FindSstStep(readers, i, key, r) ==
    IF r.kind # "ok" THEN [kind |-> "panic", v |-> None]
    ELSE IF r.v.some THEN r
    ELSE FindSst(readers, i - 1, key)

FindSst(readers, i, key) ==
    IF i = 0 THEN [kind |-> "ok", v |-> None]
    ELSE FindSstStep(readers, i, key, sstGet(readers[i], key))

\* Storage::read on the engine e: lock().unwrap() panics on a poisoned
\* mutex; then the frozen MemTables, then the L0 readers.  Neither
\* active_memtable nor sstable_readers1 is consulted.
ReadOrElse(e, key, v) ==
    IF v.some THEN [kind |-> "ok", v |-> v]
    ELSE FindSst(e.sstable_readers0, Len(e.sstable_readers0), key)

read(e, p, key) ==
    IF p THEN [kind |-> "panic", v |-> None]
    ELSE ReadOrElse(e, key, FindMem(e.memtables, Len(e.memtables), key))

storageRead(key) == read(engine, poisoned, key)

\* A channel on which a send succeeds only while the receiver waits.
FlusherWaiting == flusher.pc = "recv"

\* The flusher thread holds the receiver of the channel until it ends.
FlusherAlive == flusher.pc \notin {"exited", "panicked"}

\* MemTable::new(id, path): create_wal opens write-ahead-log-<id> with
\* create(true), read and write: an existing file is opened as it is, with
\* the cursor at 0.
CreateWalIno(id) == IF id \in DOMAIN walDir THEN walDir[id] ELSE Len(inodes) + 1

NewMemTable(id) == [id |-> id, tree |-> EmptyTree, ino |-> CreateWalIno(id), pos |-> 0]

CreateWalDir(id) == IF id \in DOMAIN walDir THEN walDir ELSE walDir @@ (id :> Len(inodes) + 1)

CreateWalInodes(files, id) == IF id \in DOMAIN walDir THEN files ELSE Append(files, <<>>)

\* A replacement that drops the old active MemTable.
replace_memtableDropsOld(e) ==
    [e EXCEPT !.active_memtable = NewMemTable(sequence_number + 1)]

\* Storage::replace_memtable on the engine e: the sequence number grows, a
\* new MemTable becomes active and the old one is pushed to the frozen queue.
replace_memtable(e) ==
    [e EXCEPT !.active_memtable = NewMemTable(sequence_number + 1),
              !.memtables = Append(e.memtables, e.active_memtable)]

\* The write of one record through the active MemTable's WAL handle.
WalWritten(m, key, value) ==
    [inodes EXCEPT ![m.ino] = walAppend(inodes[m.ino], m, key, value)]

\* Storage.sequence_number after a call that incremented it: the field is a
\* plain usize, copied by clone(), so the increment made on a clone is lost
\* with the clone.
CounterAfter(clone) == IF clone THEN sequence_number ELSE sequence_number + 1

\* The body of Storage::insert and Storage::remove once the lock is held:
\* m is the active MemTable after the call, files the WAL files after the
\* write, sends the wake-ups the call sends when it freezes the MemTable
\* (replace_memtable sends one, insert one more).  sender.send fails once
\* the flusher has ended, and then the call returns Err after the swap.
\* new_ok tells whether MemTable::new in replace_memtable succeeds: its Err
\* is returned after *sequence_number += 1 and before the swap.  clone
\* tells whether the call is made on a clone of the Storage that is dropped
\* after the call, its sequence_number with it (#[derive(Clone)]; axum's
\* State extractor in main.rs hands each request such a clone).
Written(op, key, val, m, files, sends, new_ok, clone) ==
    IF len(m.tree) = Threshold /\ ~new_ok
    THEN /\ engine' = [engine EXCEPT !.active_memtable = m]
         /\ sequence_number' = CounterAfter(clone)
         /\ inodes' = files
         /\ hist' = Append(hist, [op |-> op, key |-> key, val |-> val, wal |-> "written",
                                  res |-> "err"])
         /\ UNCHANGED <<walDir, chan, poisoned>>
    ELSE IF len(m.tree) = Threshold
    THEN /\ engine' = replace_memtable([engine EXCEPT !.active_memtable = m])
         /\ sequence_number' = CounterAfter(clone)
         /\ inodes' = CreateWalInodes(files, sequence_number + 1)
         /\ walDir' = CreateWalDir(sequence_number + 1)
         /\ chan' = IF FlusherAlive THEN chan + sends ELSE chan
         /\ hist' = Append(hist, [op |-> op, key |-> key, val |-> val, wal |-> "written",
                                  res |-> IF FlusherAlive THEN "ok" ELSE "err"])
         /\ UNCHANGED poisoned
    ELSE /\ engine' = [engine EXCEPT !.active_memtable = m]
         /\ inodes' = files
         /\ hist' = Append(hist, [op |-> op, key |-> key, val |-> val, wal |-> "written",
                                  res |-> "ok"])
         /\ UNCHANGED <<sequence_number, walDir, chan, poisoned>>

\* lock().unwrap() on a poisoned mutex: the call panics.
Panicked(op, key, val) ==
    /\ hist' = Append(hist, [op |-> op, key |-> key, val |-> val, wal |-> "none",
                             res |-> "panic"])
    /\ UNCHANGED <<engine, sequence_number, inodes, walDir, chan, poisoned>>

\* The WAL append fails (write_entry returns Err before a byte is written):
\* MemTable::insert / MemTable::remove return the Err with the tree
\* untouched, and active_memtable.insert(..).unwrap() panics in the caller
\* while the MutexGuard is held, which poisons the mutex.
WalFailed(op, key, val) ==
    /\ hist' = Append(hist, [op |-> op, key |-> key, val |-> val, wal |-> "failed",
                             res |-> "panic"])
    /\ poisoned' = TRUE
    /\ UNCHANGED <<engine, sequence_number, inodes, walDir, chan>>

\* Storage::insert(key, val); wal_ok tells whether the WAL append succeeds.
StorageInsert(key, val, wal_ok, new_ok, clone) ==
    /\ store = "up"
    /\ Len(hist) < MaxOps
    /\ IF poisoned THEN Panicked("insert", key, val)
       ELSE IF ~wal_ok THEN WalFailed("insert", key, val)
       ELSE Written("insert", key, val,
                    memInsert(engine.active_memtable, key, val),
                    WalWritten(engine.active_memtable, key, Value(val)), 2, new_ok, clone)
    /\ UNCHANGED <<store, sstablesDir, segFiles, flusher, opened, snap, crashes>>
    /\ UNCHANGED nonStoreVars

\* Storage::remove(key)
StorageRemove(key, wal_ok, new_ok, clone) ==
    /\ store = "up"
    /\ Len(hist) < MaxOps
    /\ IF poisoned THEN Panicked("remove", key, <<>>)
       ELSE IF ~wal_ok THEN WalFailed("remove", key, <<>>)
       ELSE Written("remove", key, <<>>,
                    memRemove(engine.active_memtable, key),
                    WalWritten(engine.active_memtable, key, Tombstone), 1, new_ok, clone)
    /\ UNCHANGED <<store, sstablesDir, segFiles, flusher, opened, snap, crashes>>
    /\ UNCHANGED nonStoreVars

\* The last '-'-delimited components of the names sstables-<uuid> in the
\* model, as hexadecimal digits: uuid::Uuid::new_v4() gives a fresh one.
UuidTails == {<<1>>, <<2>>, <<3>>, <<10>>}

\* str::parse::<usize>: Err unless every character is a decimal digit.
IsDecimal(ds) == \A i \in 1..Len(ds) : ds[i] < 10

RECURSIVE ParseUsize(_)
ParseUsize(ds) ==
    IF ds = <<>> THEN 0 ELSE 10 * ParseUsize(SubSeq(ds, 1, Len(ds) - 1)) + ds[Len(ds)]

\* The process of the Storage is alive: the flusher thread can run.
Running == store \in {"up", "closed"}

\* Every Storage (the only holders of a sender) is dropped; the engine
\* lives on in the flusher thread's Arc.  (Only a Storage whose process
\* can still end is dropped.)
DropStorage ==
    /\ store = "up"
    /\ crashes < MaxCrashes
    /\ store' = "closed"
    /\ UNCHANGED <<fsVars, engine, sequence_number, chan, poisoned, flusher, ghostVars>>
    /\ UNCHANGED nonStoreVars

\* compactor.rs, start_compaction: blocking_recv takes a wake-up, and
\* persist_memtable locks the engine and clones memtables.first().unwrap().
\* On an empty queue the unwrap panics while the guard is held: the mutex
\* is poisoned and the thread ends.  With no wake-up queued, blocking_recv
\* waits while a sender exists and returns None once all are dropped: the
\* loop ends and the thread with it.
FlusherRecv ==
    /\ Running
    /\ flusher.pc = "recv"
    /\ chan > 0 \/ store = "closed"
    /\ IF chan = 0
       THEN /\ flusher' = FlusherAt("exited")
            /\ UNCHANGED <<chan, poisoned>>
       ELSE /\ chan' = chan - 1
            /\ IF poisoned \/ engine.memtables = <<>>
               THEN /\ poisoned' = TRUE
                    /\ flusher' = FlusherAt("panicked")
               ELSE /\ flusher' = [flusher EXCEPT !.pc = "persist",
                                                  !.mem = engine.memtables[1]]
                    /\ UNCHANGED poisoned
    /\ UNCHANGED <<store, engine, sequence_number, fsVars, ghostVars>>
    /\ UNCHANGED nonStoreVars

\* The file of MemTable::persist when the write_entry after the first n
\* records fails (all of them written: n = len).
persistedPrefix(tree, n) == WriteAll(tree, SubSeq(SortedKeys(DOMAIN tree), 1, n))

\* A persist that goes on to remove_file whatever write_entry returned.
AfterWriteIgnoresErr(tree, n) == "unlink"

\* write_entry(..)? in the loop of MemTable::persist: an Err returns from
\* persist before remove_file, and persist_memtable returns it in turn,
\* which ends the thread.
AfterWrite(tree, n) == IF n = len(tree) THEN "unlink" ELSE "exited"

\* The flusher after the loop of MemTable::persist.
FlusherWrote(pc, bytes) ==
    IF pc = "exited" THEN FlusherAt("exited")
    ELSE [flusher EXCEPT !.pc = pc, !.file = bytes]

\* MemTable::persist, first part: File::create(./sstables/sstables-<uuid>)
\* and the records of the tree in order; n records are written before a
\* write_entry fails, if one does.  Without the directory ./sstables
\* File::create fails, persist_memtable returns Err and the thread ends.
FlusherPersist ==
    /\ Running
    /\ flusher.pc = "persist"
    /\ IF sstablesDir = "missing"
       THEN /\ flusher' = FlusherAt("exited")
            /\ UNCHANGED segFiles
       ELSE \E tail \in UuidTails \ {f.tail : f \in segFiles} :
            \E n \in 0..len(flusher.mem.tree) :
            \E bytes \in {persistedPrefix(flusher.mem.tree, n)} :
               /\ segFiles' = segFiles \cup {[tail |-> tail, bytes |-> bytes]}
               /\ flusher' = FlusherWrote(AfterWrite(flusher.mem.tree, n), bytes)
    /\ UNCHANGED <<sstablesDir, inodes, walDir, procVarsButFlusher, ghostVars>>
    /\ UNCHANGED nonStoreVars

\* MemTable::persist, second part: std::fs::remove_file(self.wal_path); an
\* Err (the path is gone) ends the thread.
FlusherUnlink ==
    /\ Running
    /\ flusher.pc = "unlink"
    /\ IF flusher.mem.id \in DOMAIN walDir
       THEN /\ walDir' = [id \in DOMAIN walDir \ {flusher.mem.id} |-> walDir[id]]
            /\ flusher' = [flusher EXCEPT !.pc = "install"]
       ELSE /\ flusher' = FlusherAt("exited")
            /\ UNCHANGED walDir
    /\ UNCHANGED <<sstablesDir, inodes, segFiles, procVarsButFlusher, ghostVars>>
    /\ UNCHANGED nonStoreVars

\* An install that removes the newest frozen MemTable.
InstalledDropsNewest(e, t) ==
    [e EXCEPT !.memtables = SubSeq(e.memtables, 1, Len(e.memtables) - 1),
              !.sstables0 = Append(e.sstables0, t),
              !.sstable_readers0 = Append(e.sstable_readers0, t)]

\* The engine after memtables.remove(0) and the two pushes to L0.
Installed(e, t) ==
    [e EXCEPT !.memtables = Tail(e.memtables),
              !.sstables0 = Append(e.sstables0, t),
              !.sstable_readers0 = Append(e.sstable_readers0, t)]

\* persist_memtable, under the lock again: memtables.remove(0) and the new
\* SSTable and its reader are pushed to L0.  lock().unwrap() panics on a
\* mutex that a writer poisoned meanwhile.
FlusherInstall ==
    /\ Running
    /\ flusher.pc = "install"
    /\ IF poisoned
       THEN /\ flusher' = FlusherAt("panicked")
            /\ UNCHANGED engine
       ELSE /\ engine' = Installed(engine, SSTableNew(flusher.file))
            /\ flusher' = FlusherAt("recv")
    /\ UNCHANGED <<store, sequence_number, chan, poisoned, fsVars, ghostVars>>
    /\ UNCHANGED nonStoreVars

\* The numbers of a set in ascending order.
RECURSIVE SortedIds(_)
SortedIds(S) ==
    IF S = {} THEN <<>>
    ELSE LET least == CHOOSE n \in S : \A j \in S : n <= j
         IN <<least>> \o SortedIds(S \ {least})

\* The process is killed.  The engine, the channel and the flusher thread
\* are gone; the linked files stay as they are (inodes are renumbered in the
\* order of the ids of their names, unlinked ones are freed).
KeptInodes(ids) == [j \in 1..Len(ids) |-> inodes[walDir[ids[j]]]]

KeptWalDir(ids) == [id \in DOMAIN walDir |-> CHOOSE j \in 1..Len(ids) : ids[j] = id]

Crash ==
    /\ Running
    /\ crashes < MaxCrashes
    /\ crashes' = crashes + 1
    /\ snap' = [reads |-> [k \in StoreKeys |-> storageRead(k)],
                l0 |-> Len(engine.sstables0),
                quiet |-> ~poisoned /\ flusher.pc \in {"recv", "exited"}]
    /\ store' = "down"
    /\ engine' = EmptyEngine
    /\ sequence_number' = 0
    /\ chan' = 0
    /\ poisoned' = FALSE
    /\ flusher' = FlusherAt("recv")
    /\ \E ids \in {SortedIds(DOMAIN walDir)} :
          /\ inodes' = KeptInodes(ids)
          /\ walDir' = KeptWalDir(ids)
    /\ UNCHANGED <<sstablesDir, segFiles, hist, opened>>
    /\ UNCHANGED nonStoreVars

\* StorageBuilder::load_sstables: the files of segments_path whose name
\* starts with SEGMENTS_NAME, sorted by the usize parsed from the last
\* '-'-delimited component of the name; a name that does not parse is Err.
SegmentFiles == IF sstablesDir = "segments" THEN segFiles ELSE {}

LoadSstablesOk == \A f \in SegmentFiles : IsDecimal(f.tail)

RECURSIVE SortByKey(_)
SortByKey(S) ==
    IF S = {} THEN <<>>
    ELSE LET first == CHOOSE f \in S :
                          \A g \in S : ParseUsize(f.tail) <= ParseUsize(g.tail)
         IN <<SSTableNew(first.bytes)>> \o SortByKey(S \ {first})

load_sstables == SortByKey(SegmentFiles)

\* StorageBuilder::load_memtables: MemTable::recover on every file of the
\* WAL directory, sorted by id; the last one becomes the active MemTable and
\* the others the frozen queue.  Without a file, MemTable::new(0, ...).
RecoveredMemTable(id, r) == [id |-> id, tree |-> r.tree, ino |-> walDir[id], pos |-> r.pos]

recoverMemTable(id) == RecoveredMemTable(id, recover(inodes[walDir[id]]))

load_memtables(ids) ==
    IF ids = <<>>
    THEN [active_memtable |-> NewMemTable(0), memtables |-> <<>>]
    ELSE [active_memtable |-> recoverMemTable(ids[Len(ids)]),
          memtables |-> [j \in 1..(Len(ids) - 1) |-> recoverMemTable(ids[j])]]

\* The WAL files after load_memtables: recover truncates each file.
RecoveredFile(file) == recover(file).file

LoadedInodes(ids) ==
    IF ids = <<>> THEN CreateWalInodes(inodes, 0)
    ELSE [i \in 1..Len(inodes) |->
             IF \E id \in DOMAIN walDir : walDir[id] = i
             THEN RecoveredFile(inodes[i]) ELSE inodes[i]]

\* StorageBuilder::build
BuiltEngine(l0, mems) ==
    [active_memtable |-> mems.active_memtable, memtables |-> mems.memtables,
     sstables0 |-> l0, sstables1 |-> <<>>,
     sstable_readers0 |-> l0, sstable_readers1 |-> <<>>]

build ==
    /\ store = "down"
    /\ IF LoadSstablesOk
       THEN \E ids \in {SortedIds(DOMAIN walDir)} :
               /\ store' = "up"
               /\ engine' = BuiltEngine(load_sstables, load_memtables(ids))
               /\ inodes' = LoadedInodes(ids)
               /\ walDir' = IF ids = <<>> THEN CreateWalDir(0) ELSE walDir
       ELSE /\ store' = "failed"
            /\ UNCHANGED <<engine, inodes, walDir>>
    /\ opened' = Len(hist)
    /\ UNCHANGED <<sstablesDir, segFiles, sequence_number, chan, poisoned, flusher,
                   hist, snap, crashes>>
    /\ UNCHANGED nonStoreVars

\* In Spec the WAL append of a write can fail; the creation of a WAL file
\* by a freeze always succeeds and every call is made on the Storage that
\* build returned.
Next ==
    \/ \E key \in StoreKeys, val \in StoreVals, wal_ok \in BOOLEAN :
          StorageInsert(key, val, wal_ok, TRUE, FALSE)
    \/ \E key \in StoreKeys, wal_ok \in BOOLEAN :
          StorageRemove(key, wal_ok, TRUE, FALSE)
    \/ FlusherRecv
    \/ FlusherPersist
    \/ FlusherUnlink
    \/ FlusherInstall
    \/ Crash
    \/ build

\* A Storage built over empty directories; ./sstables is missing, a
\* directory other than segments_path, or segments_path itself.
Init ==
    /\ WalIdle /\ MergeIdle /\ LockIdle /\ CompactIdle
    /\ StoreBuilt
    /\ sstablesDir \in {"missing", "other", "segments"}

Spec == Init /\ [][Next]_vars

(***************************************************************************)
(* SpecLifecycle: the Storage from build to drop over segments_path other  *)
(* than ./sstables, with every outcome of the file system on a write, the  *)
(* drop of the Storage while its process lives on, the end of the process  *)
(* after the flusher thread, and the next build.                           *)
(***************************************************************************)
\* What the file system answers to a write: <<wal_ok, new_ok>>.  After a
\* failed WAL append no MemTable is created.
IoOutcomes == {<<TRUE, TRUE>>, <<TRUE, FALSE>>, <<FALSE, TRUE>>}

\* The process ends once the Storage is dropped and the flusher thread has
\* ended.
Exit ==
    /\ store = "closed"
    /\ ~FlusherAlive
    /\ Crash

LifecycleNext ==
    \/ \E key \in StoreKeys, val \in StoreVals, io \in IoOutcomes :
          StorageInsert(key, val, io[1], io[2], FALSE)
    \/ \E key \in StoreKeys, io \in IoOutcomes :
          StorageRemove(key, io[1], io[2], FALSE)
    \/ DropStorage
    \/ FlusherRecv
    \/ FlusherPersist
    \/ FlusherUnlink
    \/ FlusherInstall
    \/ Exit
    \/ build

InitLifecycle ==
    /\ WalIdle /\ MergeIdle /\ LockIdle /\ CompactIdle
    /\ StoreBuilt
    /\ sstablesDir = "other"

SpecLifecycle == InitLifecycle /\ [][LifecycleNext]_vars

(***************************************************************************)
(* The contract of the store, stated on Spec.                              *)
(***************************************************************************)
\* The last call on key in hist (0 without one), and whether it was a call
\* op on the running Storage that returned Ok.
LastCall(key) ==
    IF \E i \in 1..Len(hist) : hist[i].key = key
    THEN CHOOSE i \in 1..Len(hist) :
            /\ hist[i].key = key
            /\ \A j \in (i + 1)..Len(hist) : hist[j].key # key
    ELSE 0

Returned(key, op) ==
    /\ LastCall(key) > opened
    /\ hist[LastCall(key)].op = op
    /\ hist[LastCall(key)].res = "ok"

\* C1 (write visibility): once insert(k, v) has returned successfully on the
\* running store, read(k) returns Some(v) until the next insert or remove
\* of k.
WriteVisibility ==
    store = "up" =>
        \A k \in StoreKeys :
            Returned(k, "insert") =>
                storageRead(k) = [kind |-> "ok", v |-> Some(hist[LastCall(k)].val)]

\* C2 (delete visibility): once remove(k) has returned successfully on the
\* running store, read(k) returns None until the next insert of k.
DeleteVisibility ==
    store = "up" =>
        \A k \in StoreKeys :
            Returned(k, "remove") => storageRead(k) = [kind |-> "ok", v |-> None]

\* The record that a layer holds for key: Some(record) or None.
MemRecord(tree, key) == IF key \in DOMAIN tree THEN Some(tree[key]) ELSE None

SstEntry(r) == IF r.kind = "entry" THEN Some(r.value) ELSE None

SstRecord(table, key) ==
    IF key \in DOMAIN table.indexes
    THEN SstEntry(read_entry(table.fd, table.indexes[key])) ELSE None

\* The records for key of the layers of the engine, newest layer first:
\* the active MemTable, the frozen MemTables, L0, L1.
Reverse(seq) == [i \in 1..Len(seq) |-> seq[Len(seq) + 1 - i]]

LayerRecords(e, key) ==
    <<MemRecord(e.active_memtable.tree, key)>>
    \o [i \in 1..Len(e.memtables) |-> MemRecord(Reverse(e.memtables)[i].tree, key)]
    \o [i \in 1..Len(e.sstable_readers0) |-> SstRecord(Reverse(e.sstable_readers0)[i], key)]
    \o [i \in 1..Len(e.sstable_readers1) |-> SstRecord(e.sstable_readers1[i], key)]

\* The answer of the newest layer that holds a record: a Value gives
\* Some(v), a Tombstone gives None, and so does no record at all.
NewestAnswer(records) ==
    IF \E i \in 1..Len(records) : records[i].some
    THEN LET first == CHOOSE i \in 1..Len(records) :
                          /\ records[i].some
                          /\ \A j \in 1..(i - 1) : ~records[j].some
         IN IF records[first].v.tomb THEN None ELSE Some(records[first].v.val)
    ELSE None

\* C3 (read ordering): read(k) returns the answer of the newest layer that
\* holds a record for k, the layers being the active MemTable, the frozen
\* MemTables newest first, L0 newest first and L1; a Tombstone is an answer.
ReadOrdering ==
    (store = "up" /\ ~poisoned) =>
        \A k \in StoreKeys :
            storageRead(k) = [kind |-> "ok", v |-> NewestAnswer(LayerRecords(engine, k))]

\* What read(key) gives after the calls of hist, applied in order.
Replay(key) ==
    IF LastCall(key) = 0 \/ hist[LastCall(key)].op = "remove" THEN None
    ELSE Some(hist[LastCall(key)].val)

\* A Storage was built after a process kill and no call was made on it yet.
Reopened == store \in {"up", "failed"} /\ crashes > 0 /\ Len(hist) = opened

\* C4 (durability): after successful insert/remove calls and a process kill
\* at any point, reopening the store gives for every key the read of a
\* prefix of the calls that holds every acknowledged one (all of them, every
\* call having returned before the kill).
Durability ==
    (Reopened /\ \A i \in 1..Len(hist) : hist[i].res = "ok") =>
        /\ store = "up"
        /\ \A k \in StoreKeys : storageRead(k) = [kind |-> "ok", v |-> Replay(k)]

\* C5 (reopen round-trip): a Storage built over the same directories reads
\* every key as the store did before, and holds as many L0 SSTables as were
\* flushed (no flush being under way when the store was left).
ReopenRoundTrip ==
    (Reopened /\ snap.quiet) =>
        /\ store = "up"
        /\ \A k \in StoreKeys : storageRead(k) = snap.reads[k]
        /\ Len(engine.sstables0) = snap.l0

\* The calls so far are inserts of pairwise distinct keys that returned Ok.
DistinctInserts ==
    /\ \A i \in 1..Len(hist) : hist[i].op = "insert" /\ hist[i].res = "ok"
    /\ \A i, j \in 1..Len(hist) : i # j => hist[i].key # hist[j].key

\* C6 (threshold flush): from an empty store, once N x threshold inserts of
\* distinct keys have returned, the engine holds N L0 SSTables and the
\* active MemTable is empty.
ThresholdFlush ==
    (/\ store = "up" /\ crashes = 0
     /\ DistinctInserts
     /\ Len(hist) > 0 /\ Len(hist) % Threshold = 0) =>
        /\ Len(engine.sstables0) = Len(hist) \div Threshold
        /\ len(engine.active_memtable.tree) = 0

\* C12 (WAL write failure): when the WAL append of an insert or remove
\* fails, the tree of the active MemTable is left as it was, the call
\* returns an error value, and the store stays usable (the engine mutex
\* can still be taken).
WalWriteFailure ==
    [][(Len(hist') > Len(hist) /\ hist'[Len(hist')].wal = "failed") =>
          /\ engine'.active_memtable.tree = engine.active_memtable.tree
          /\ hist'[Len(hist')].res = "err"
          /\ ~poisoned']_vars

(***************************************************************************)
(* SpecCompact: SSTables are flushed to L0 of an engine and                *)
(* trigger_l0_compaction (compactor.rs) is run on it, as in the test       *)
(* compaction_in_l0_changes_all_files_in_l1.  A table carries the path of   *)
(* its file.                                                               *)
(***************************************************************************)
CompactTrees ==
    UNION {[S -> {Tombstone, Value(<<5>>)}] : S \in SUBSET StoreKeys \ {{}}}

TableAt(path, table) == [path |-> path, fd |-> table.fd, indexes |-> table.indexes]

\* A MemTable with this tree is flushed: its SSTable and reader are pushed
\* to L0 (persist_memtable), which takes the engine mutex.
CompactFlush(tree) ==
    /\ ~cLock
    /\ cPaths < MaxFiles
    /\ \E t \in {TableAt(cPaths + 1, SSTableNew(persistBytes(tree)))} :
          cEngine' = [cEngine EXCEPT
                         !.sstables0 = Append(cEngine.sstables0, t),
                         !.sstable_readers0 = Append(cEngine.sstable_readers0, t)]
    /\ cPaths' = cPaths + 1
    /\ cBefore' = cEngine.sstables0 \o cEngine.sstables1
    /\ cLast' = "flush"
    /\ UNCHANGED <<cLock, cMerged>>
    /\ UNCHANGED nonCompactVars

\* Storage::read(key): engine.lock() waits while the mutex is held.
CompactRead(key) ==
    /\ ~cLock
    /\ cLast' = "read"
    /\ UNCHANGED <<cEngine, cPaths, cBefore, cLock, cMerged>>
    /\ UNCHANGED nonCompactVars

\* The reduce of trigger_l0_compaction over tables[i..]: SSTable::merge
\* with acc as old_sstable and the next table as new_sstable, each into a
\* fresh temporary file; unwrap panics on an Err of merge.
RECURSIVE ReduceFrom(_, _, _, _)
ReduceStep(m, tables, i, path) ==
    IF ~m.ok THEN [ok |-> FALSE, table |-> tables[i], paths |-> path]
    ELSE ReduceFrom(TableAt(path, m.table), tables, i + 1, path)

ReduceFrom(acc, tables, i, path) ==
    IF i > Len(tables) THEN [ok |-> TRUE, table |-> acc, paths |-> path]
    ELSE ReduceStep(merge(acc, tables[i]), tables, i, path + 1)

\* The closure of merged_table.map: the lists without the merged table in
\* L1 only.
CompactedKeepsL1(e, merged) ==
    [sstables0 |-> <<>>, sstables1 |-> Append(e.sstables1, merged),
     sstable_readers0 |-> <<>>, sstable_readers1 |-> Append(e.sstable_readers1, merged)]

\* The closure of merged_table.map: the four lists are cleared and the
\* merged table and its reader are pushed to L1.
CompactedEngine(e, merged) ==
    [sstables0 |-> <<>>, sstables1 |-> <<merged>>,
     sstable_readers0 |-> <<>>, sstable_readers1 |-> <<merged>>]

\* trigger_l0_compaction, first lines: engine.lock() and the clones of the
\* tables of L0 followed by those of L1; the guard lives to the end of the
\* function.  (Without any table the function changes nothing.)
CompactLock ==
    /\ ~cLock
    /\ cEngine.sstables0 \o cEngine.sstables1 # <<>>
    /\ cLock' = TRUE
    /\ cBefore' = cEngine.sstables0 \o cEngine.sstables1
    /\ cLast' = "lock"
    /\ UNCHANGED <<cEngine, cPaths, cMerged>>
    /\ UNCHANGED nonCompactVars

\* trigger_l0_compaction, the reduce: the merges read and write the files.
CompactMerge ==
    /\ cLock
    /\ cMerged = <<>>
    /\ \E r \in {ReduceFrom(cBefore[1], cBefore, 2, cPaths)} :
          /\ cMerged' = <<r>>
          /\ cPaths' = r.paths
    /\ cLast' = "merge"
    /\ UNCHANGED <<cEngine, cBefore, cLock>>
    /\ UNCHANGED nonCompactVars

\* trigger_l0_compaction, merged_table.map and the end of the function,
\* where the guard is dropped.
CompactInstall ==
    /\ cLock
    /\ cMerged # <<>>
    /\ cEngine' = IF cMerged[1].ok THEN CompactedEngine(cEngine, cMerged[1].table)
                  ELSE cEngine
    /\ cLast' = IF cMerged[1].ok THEN "compact" ELSE "panic"
    /\ cLock' = FALSE
    /\ cMerged' = <<>>
    /\ UNCHANGED <<cPaths, cBefore>>
    /\ UNCHANGED nonCompactVars

\* trigger_l0_compaction
TriggerL0Compaction == CompactLock \/ CompactMerge \/ CompactInstall

CompactNext ==
    \/ \E tree \in CompactTrees : CompactFlush(tree)
    \/ \E key \in StoreKeys : CompactRead(key)
    \/ TriggerL0Compaction

InitCompact == WalIdle /\ MergeIdle /\ LockIdle /\ StoreIdle /\ CompactIdle
SpecCompact == InitCompact /\ [][CompactNext]_vars

PathsOf(tables) == {tables[i].path : i \in 1..Len(tables)}

\* L0 is empty, L1 holds one table, and the reader lists match the table
\* lists.
OneTableInL1 ==
    /\ cEngine.sstables0 = <<>>
    /\ Len(cEngine.sstables1) = 1
    /\ cEngine.sstable_readers0 = cEngine.sstables0
    /\ cEngine.sstable_readers1 = cEngine.sstables1

\* C15 (compaction result), as claimed: after a run of
\* trigger_l0_compaction on an engine with at least one table, L0 is empty,
\* L1 holds exactly one table, none of the tables from before the run is in
\* the lists, and the reader lists match the table lists.
CompactionResultAlwaysNew ==
    cLast = "compact" =>
        /\ OneTableInL1
        /\ cEngine.sstables1[1].path \notin PathsOf(cBefore)

\* C15, amended: after a run on an engine with at least one table, L0 is
\* empty, L1 holds exactly one table and the reader lists match; with two
\* or more tables before the run that table is a new one (none of the
\* tables from before is in the lists), while a single table (in L0 or in
\* L1) is itself the table that L1 holds afterwards.
CompactionResult ==
    cLast = "compact" =>
        /\ OneTableInL1
        /\ Len(cBefore) >= 2 => cEngine.sstables1[1].path \notin PathsOf(cBefore)
        /\ Len(cBefore) = 1 => cEngine.sstables1[1] = cBefore[1]

\* A second compaction merged two new L0 tables with the L1 table of the
\* first one.
CompactionWitness ==
    /\ cLast = "compact"
    /\ Len(cBefore) = 3
    /\ cBefore[3].path < cBefore[2].path
    /\ cEngine.sstables1[1].path = cPaths

\* The tables among those before the run that hold a record for key, and
\* the youngest of them.  Paths are numbered in the order the files are
\* created: the L1 table was written before every table now in L0, and L0
\* is in flush order.
HoldersOf(key) == {i \in 1..Len(cBefore) : key \in DOMAIN cBefore[i].indexes}

Youngest(key) ==
    cBefore[CHOOSE i \in HoldersOf(key) :
                \A j \in HoldersOf(key) : cBefore[j].path <= cBefore[i].path]

\* C25 (compaction keeps the newest record): after a compaction, for every
\* key that one of the merged tables held, the L1 table holds the record of
\* the youngest of the tables that held the key, the L1 table of before
\* being the oldest and the L0 tables younger in their list order.
CompactionKeepsNewest ==
    cLast = "compact" =>
        \A key \in StoreKeys :
            HoldersOf(key) # {} =>
                /\ key \in DOMAIN cEngine.sstables1[1].indexes
                /\ EntryAt(cEngine.sstables1[1], key).value
                      = EntryAt(Youngest(key), key).value

\* The engine of SpecCompact as Storage::read sees it: no frozen MemTable.
CompactView(c) ==
    [EmptyEngine EXCEPT !.sstables0 = c.sstables0, !.sstables1 = c.sstables1,
                        !.sstable_readers0 = c.sstable_readers0,
                        !.sstable_readers1 = c.sstable_readers1]

\* C26 (compaction does not change what readers see): Storage::read returns
\* for every key the same result right after a run of trigger_l0_compaction
\* as right before it.
CompactionKeepsReads ==
    [][cLast' = "compact" =>
          \A key \in StoreKeys :
              read(CompactView(cEngine'), FALSE, key)
                  = read(CompactView(cEngine), FALSE, key)]_vars

\* C27 (tombstones are dropped at the deepest level): the table that a
\* compaction leaves in L1 holds no Tombstone record.
CompactionDropsTombstones ==
    cLast = "compact" =>
        \A i \in 1..Len(Scan(cEngine.sstables1[1].fd).entries) :
            ~Scan(cEngine.sstables1[1].fd).entries[i].value.tomb

\* C29 (background disk I/O happens outside the engine mutex): while
\* trigger_l0_compaction is about to merge or is merging the tables, it does
\* not hold the engine mutex and a read can proceed.
MergeOutsideMutex ==
    cLast = "lock" =>
        /\ ~cLock
        /\ \A key \in StoreKeys : ENABLED CompactRead(key)

(***************************************************************************)
(* The MemTables of the engine, stated on Spec.  Every state of Spec is    *)
(* one in which no call holds the engine mutex.                            *)
(***************************************************************************)
\* The active MemTable took a write and stayed in the active slot.
WroteActive ==
    /\ engine'.memtables = engine.memtables
    /\ engine'.active_memtable.id = engine.active_memtable.id
    /\ engine'.active_memtable.ino = engine.active_memtable.ino
    /\ engine'.active_memtable.pos > engine.active_memtable.pos

\* The active MemTable took the write that filled it, went to the end of
\* the frozen queue and an empty one took its place.
FrozeActive ==
    /\ Len(engine'.memtables) = Len(engine.memtables) + 1
    /\ SubSeq(engine'.memtables, 1, Len(engine.memtables)) = engine.memtables
    /\ engine'.memtables[Len(engine'.memtables)].id = engine.active_memtable.id
    /\ engine'.memtables[Len(engine'.memtables)].ino = engine.active_memtable.ino
    /\ engine'.memtables[Len(engine'.memtables)].pos > engine.active_memtable.pos
    /\ len(engine'.memtables[Len(engine'.memtables)].tree) = Threshold
    /\ engine'.active_memtable.tree = EmptyTree

\* The first frozen MemTable left the queue and L0 grew by one SSTable.
InstalledFrozen ==
    /\ engine.memtables # <<>>
    /\ engine'.memtables = Tail(engine.memtables)
    /\ engine'.active_memtable = engine.active_memtable
    /\ Len(engine'.sstables0) = Len(engine.sstables0) + 1

\* C16 (atomic freeze): while the Storage is up, the MemTable in the active
\* slot is not in the frozen queue, and within one run of the program the
\* active slot and the frozen queue change only by a write to the active
\* MemTable, by a freeze that pushes the filled active MemTable to the
\* frozen queue and puts an empty one in its place, both in one step, or by
\* the install of the first frozen MemTable into L0: no state shows a
\* written, uninstalled MemTable in both places or in neither.
AtomicFreeze ==
    /\ [](store = "up" =>
             \A i \in 1..Len(engine.memtables) :
                 engine.memtables[i] # engine.active_memtable)
    /\ [][(/\ store = "up" /\ store' = "up"
           /\ \/ engine'.active_memtable # engine.active_memtable
              \/ engine'.memtables # engine.memtables)
          => (WroteActive \/ FrozeActive \/ InstalledFrozen)]_vars

\* A MemTable is frozen and the one that replaced it has been written to.
AtomicFreezeWitness ==
    /\ store = "up"
    /\ opened = 0
    /\ engine.memtables # <<>>
    /\ engine.active_memtable.tree # EmptyTree
    /\ engine.active_memtable.id = engine.memtables[Len(engine.memtables)].id + 1

\* C17 (flush install): the flusher takes the first (oldest) frozen
\* MemTable; the MemTable it flushed is still the first of the queue when it
\* installs, whatever the writers pushed meanwhile; the install removes it
\* and appends the SSTable of its records to the end of L0 in one step; and
\* every key reads the same before and after the install.
FlushInstall ==
    [][/\ (flusher.pc = "recv" /\ flusher'.pc = "persist") =>
             /\ engine.memtables # <<>>
             /\ flusher'.mem = engine.memtables[1]
       /\ (flusher.pc = "install" /\ flusher'.pc = "recv" /\ store' = "up") =>
             /\ engine.memtables # <<>>
             /\ flusher.mem = engine.memtables[1]
             /\ engine'.memtables = Tail(engine.memtables)
             /\ engine'.sstables0 =
                   Append(engine.sstables0, SSTableNew(persistBytes(flusher.mem.tree)))
             /\ engine'.sstable_readers0 = engine'.sstables0
             /\ \A key \in StoreKeys :
                   read(engine', poisoned', key) = read(engine, poisoned, key)]_vars

\* An install took place after a writer had pushed a second MemTable to
\* the frozen queue behind the one being flushed.
FlushInstallWitness ==
    /\ store = "up"
    /\ opened = 0
    /\ flusher.pc = "recv"
    /\ Len(engine.sstables0) = 1
    /\ Len(engine.memtables) = 1
    /\ \A key \in StoreKeys : storageRead(key).kind = "ok"

\* C18 (wake-up with an empty queue): a wake-up that the flusher receives
\* while the frozen queue is empty leaves the engine unchanged, leaves the
\* flusher thread running and leaves the engine mutex usable.
EmptyQueueWakeUp ==
    [][(/\ store = "up" /\ store' = "up"
        /\ chan' = chan - 1
        /\ ~poisoned
        /\ engine.memtables = <<>>)
       => /\ engine' = engine
          /\ flusher'.pc \notin {"exited", "panicked"}
          /\ ~poisoned']_vars

\* C19 (frozen MemTables are drained): without any I/O error, when no
\* writer is running and the flusher has nothing left to do (it waits for a
\* wake-up and none is pending), the frozen queue is empty: every MemTable
\* that entered it, frozen by a write or recovered at open, has been flushed.
FrozenDrained ==
    (/\ store = "up"
     /\ ~poisoned
     /\ sstablesDir # "missing"
     /\ \A i \in 1..Len(hist) : hist[i].wal # "failed"
     /\ flusher.pc = "recv"
     /\ chan = 0)
    => engine.memtables = <<>>

\* The live MemTables: the frozen ones whose flush has not completed (the
\* flusher completes the flush of the first one when it removes its WAL
\* file, before the install) and the active one.
LiveMemTables ==
    (IF flusher.pc = "install" THEN Tail(engine.memtables) ELSE engine.memtables)
        \o <<engine.active_memtable>>

\* C20 (WAL lifecycle invariant): while the Storage is up and its mutex
\* usable, the WAL files on
\* disk are those of the live MemTables, no two live MemTables share a WAL
\* file, and the WAL file of each live MemTable replays to the tree of
\* that MemTable.
WalLifecycle ==
    (store = "up" /\ ~poisoned) =>
        /\ DOMAIN walDir = {LiveMemTables[i].id : i \in 1..Len(LiveMemTables)}
        /\ \A i, j \in 1..Len(LiveMemTables) :
              i # j => /\ LiveMemTables[i].id # LiveMemTables[j].id
                       /\ LiveMemTables[i].ino # LiveMemTables[j].ino
        /\ \A i \in 1..Len(LiveMemTables) :
              /\ LiveMemTables[i].id \in DOMAIN walDir
              /\ walDir[LiveMemTables[i].id] = LiveMemTables[i].ino
              /\ recover(inodes[LiveMemTables[i].ino]).tree = LiveMemTables[i].tree

\* C21 (WAL unlink is the last step of a flush): a step of the flusher that
\* removes a WAL file happens only when the SSTable file holds every record
\* of the MemTable being flushed; a step in which creating or writing the
\* SSTable file fails removes no WAL file, leaves the frozen queue as it is
\* and appends nothing to L0, and the flusher does nothing afterwards.
UnlinkLast ==
    /\ [][/\ (/\ store = "up" /\ store' = "up"
              /\ DOMAIN walDir' # DOMAIN walDir
              /\ DOMAIN walDir' \subseteq DOMAIN walDir)
             => /\ flusher.pc = "unlink"
                /\ DOMAIN walDir' = DOMAIN walDir \ {flusher.mem.id}
                /\ HoldsTree(Scan(flusher.file), flusher.mem.tree)
                /\ \E f \in segFiles : f.bytes = flusher.file
          /\ (flusher.pc = "persist" /\ flusher'.pc = "exited")
             => /\ walDir' = walDir
                /\ inodes' = inodes
                /\ engine' = engine
          /\ (flusher.pc = "exited" /\ store' = "up")
             => /\ flusher' = flusher
                /\ DOMAIN walDir \subseteq DOMAIN walDir'
                /\ engine'.sstables0 = engine.sstables0
                /\ \A i \in 1..Len(engine.memtables) :
                      engine'.memtables[i] = engine.memtables[i]]_vars

\* A write_entry of a flush failed after the first record: the file holds
\* one record, the WAL file of the MemTable is still there and the MemTable
\* is still the first of the frozen queue.
UnlinkLastWitness ==
    /\ store = "up"
    /\ opened = 0
    /\ sstablesDir # "missing"
    /\ flusher.pc = "exited"
    /\ \E f \in segFiles : Len(Scan(f.bytes).entries) = 1
    /\ engine.memtables # <<>>
    /\ engine.memtables[1].id \in DOMAIN walDir
    /\ engine.sstables0 = <<>>

\* C22 (MemTable ids): a freeze puts in the active slot a MemTable whose id
\* is the id of the MemTable it replaces plus one, and neither that id nor
\* its WAL file is the one of a MemTable that is live before the freeze.
MemTableIds ==
    [][(/\ store = "up" /\ store' = "up"
        /\ Len(engine'.memtables) = Len(engine.memtables) + 1)
       => /\ engine'.active_memtable.id = engine.active_memtable.id + 1
          /\ \A i \in 1..Len(engine'.memtables) :
                /\ engine'.memtables[i].id # engine'.active_memtable.id
                /\ engine'.memtables[i].ino # engine'.active_memtable.ino]_vars

\* C23 (flushed SSTables are found again): every file the flusher wrote is
\* in the configured segments directory under a name that ends in a base-10
\* integer, an open over the files parses every name, and after a reopen L0
\* holds at least the SSTables that were installed before.
FlushedFound ==
    /\ \A f \in segFiles : sstablesDir = "segments" /\ IsDecimal(f.tail)
    /\ store # "failed"
    /\ (store = "up" /\ crashes > 0) => Len(engine.sstables0) >= snap.l0

\* C28 (compaction is triggered): without any I/O error, when the
\* background worker has nothing left to do (it waits for a wake-up and none
\* is pending), the number of L0 SSTables is not past the compaction
\* threshold: a compaction has emptied L0 into L1.
CompactionTriggered ==
    (/\ store = "up"
     /\ ~poisoned
     /\ sstablesDir # "missing"
     /\ \A i \in 1..Len(hist) : hist[i].wal # "failed"
     /\ flusher.pc = "recv"
     /\ chan = 0)
    => Len(engine.sstables0) <= CompactionThreshold

\* C30 (writers never wait for the flusher): while the Storage is up an
\* insert and a remove can be made, whatever the flusher is doing and
\* however many wake-ups are pending; a write on a usable mutex returns without a
\* step of the flusher; and one that reaches the threshold while the
\* flusher thread lives freezes the MemTable, adds its wake-ups to the
\* pending ones and returns Ok.
WritersNeverWait ==
    /\ []((store = "up" /\ Len(hist) < MaxOps) =>
             /\ ENABLED StorageInsert(<<1>>, <<5>>, TRUE, TRUE, FALSE)
             /\ ENABLED StorageRemove(<<2>>, TRUE, TRUE, FALSE))
    /\ [][(/\ store = "up" /\ store' = "up"
           /\ Len(hist') = Len(hist) + 1
           /\ hist'[Len(hist')].wal = "written")
          => /\ flusher' = flusher
             /\ hist'[Len(hist')].res # "panic"
             /\ Len(engine'.memtables) >= Len(engine.memtables)
             /\ (/\ Len(engine'.memtables) > Len(engine.memtables)
                 /\ flusher.pc \notin {"exited", "panicked"})
                => /\ chan' > chan
                   /\ hist'[Len(hist')].res = "ok"]_vars

\* Two MemTables were frozen and four wake-ups are pending while the flusher
\* has not taken a step.
WritersNeverWaitWitness ==
    /\ store = "up"
    /\ opened = 0
    /\ flusher.pc = "recv"
    /\ chan = 4
    /\ Len(engine.memtables) = 2
    /\ engine.sstables0 = <<>>
    /\ \A i \in 1..Len(hist) : hist[i].res = "ok"

(***************************************************************************)
(* SpecClones: writes made on the Storage that build returned and on       *)
(* clones of it that are dropped after the call, without I/O errors, and   *)
(* the flusher.                                                            *)
(***************************************************************************)
ClonesNext ==
    \/ \E key \in StoreKeys, val \in StoreVals, clone \in BOOLEAN :
          StorageInsert(key, val, TRUE, TRUE, clone)
    \/ \E key \in StoreKeys, clone \in BOOLEAN :
          StorageRemove(key, TRUE, TRUE, clone)
    \/ FlusherRecv
    \/ FlusherPersist
    \/ FlusherUnlink
    \/ FlusherInstall

InitClones ==
    /\ WalIdle /\ MergeIdle /\ LockIdle /\ CompactIdle
    /\ StoreBuilt
    /\ sstablesDir = "other"

SpecClones == InitClones /\ [][ClonesNext]_vars

\* C34 (clones of the facade agree on MemTable ids): a freeze, made on the
\* Storage or on any clone of it, puts in the active slot a MemTable whose
\* id is greater than the id of the one it replaces and whose id and WAL
\* file are not those of a MemTable in the frozen queue.
ClonesAgreeOnIds ==
    [][(store = "up" /\ Len(engine'.memtables) = Len(engine.memtables) + 1) =>
          /\ engine'.active_memtable.id > engine.active_memtable.id
          /\ \A i \in 1..Len(engine'.memtables) :
                /\ engine'.memtables[i].id # engine'.active_memtable.id
                /\ engine'.memtables[i].ino # engine'.active_memtable.ino]_vars

(***************************************************************************)
(* The end of a Storage and its faults, stated on SpecLifecycle.           *)
(***************************************************************************)
\* C31 (shutdown): once the Storage is dropped and no WAL append has
\* failed, the flusher does not end in a panic: it takes the queued
\* wake-ups and its loop ends; and when its thread has ended, every
\* MemTable still in the frozen queue has its WAL file on disk, which
\* recovers to the MemTable's tree.
Shutdown ==
    (store = "closed" /\ \A i \in 1..Len(hist) : hist[i].wal # "failed") =>
        /\ flusher.pc # "panicked"
        /\ ~poisoned
        /\ flusher.pc = "exited" =>
              \A i \in 1..Len(engine.memtables) :
                  /\ engine.memtables[i].id \in DOMAIN walDir
                  /\ walDir[engine.memtables[i].id] = engine.memtables[i].ino
                  /\ recover(inodes[engine.memtables[i].ino]).tree
                        = engine.memtables[i].tree

\* C32 (the active MemTable stays below the threshold): while a Storage is
\* up and no call is running, the active MemTable holds fewer than
\* Threshold keys, Tombstones counted.
ActiveBelowThreshold ==
    store = "up" => len(engine.active_memtable.tree) < Threshold

\* C33 (failed writes leave no trace): an insert or remove that returns
\* an error leaves the engine as it was before the call, and one that
\* changed the active MemTable or the frozen queue returns success.
FailedWritesNoTrace ==
    [][(store = "up" /\ Len(hist') = Len(hist) + 1) =>
          /\ hist'[Len(hist')].res = "err" => engine' = engine
          /\ engine' # engine => hist'[Len(hist')].res = "ok"]_vars

=============================================================================
